---- MODULE Spec2Model ----
(***************************************************************************)
(* A model of server.py, the Website-Generator KI proxy: the model preset  *)
(* resolver, the upstream client with its retry loop, the content          *)
(* normaliser, the bundle directory and the /generate, /upload and         *)
(* /bundle/{id}.zip handlers.                                              *)
(*                                                                         *)
(* Text is a sequence of one-character strings, so that the regular        *)
(* expressions and string methods of the source are modelled by what they  *)
(* do to the characters.  An Optional value is <<>> (None) or <<v>>.       *)
(* Floats are hundredths (0.30 is 30).                                     *)
(***************************************************************************)
EXTENDS Integers, Sequences, FiniteSets, TLC

\* ---------------------------------------------------------------- text

\* the apostrophe
Apostrophe == "'"

\* the backquote character of a code fence, written as a word: the lexer of the
\* parser does not accept a backquote inside a string
BackTick == "BACKQUOTE"

None == <<>>

Some(v) == <<v>>

IsNone(o) == Len(o) = 0

Val(o) == o[1]

UpperSeq == <<"A","B","C","D","E","F","G","H","I","J","K","L","M","N","O","P","Q","R","S","T","U","V","W","X","Y","Z">>

LowerSeq == <<"a","b","c","d","e","f","g","h","i","j","k","l","m","n","o","p","q","r","s","t","u","v","w","x","y","z">>

DigitSeq == <<"0","1","2","3","4","5","6","7","8","9">>

Range(s) == {s[i] : i \in 1..Len(s)}

Uppers == Range(UpperSeq)

Lowers == Range(LowerSeq)

Digits == Range(DigitSeq)

\* [a-zA-Z0-9]
AlnumChars == Uppers \cup Lowers \cup Digits

\* \s and the characters str.strip() removes (those the model's texts use)
WhiteSpace == {" ", "\n", "\t"}

Max(a, b) == IF a >= b THEN a ELSE b

Min(a, b) == IF a <= b THEN a ELSE b

\* str.lower() on one character
LowerChar(c) == IF c \in Uppers THEN LowerSeq[CHOOSE i \in 1..26 : UpperSeq[i] = c] ELSE c

\* str.lower()
Lower(s) == [i \in 1..Len(s) |-> LowerChar(s[i])]

\* the number of leading characters of s that are in set
RECURSIVE LeadRun(_, _)
LeadRun(s, set) == IF s # <<>> /\ Head(s) \in set THEN 1 + LeadRun(Tail(s), set) ELSE 0

\* the number of trailing characters of s that are in set
RECURSIVE TrailRun(_, _)
TrailRun(s, set) ==
    IF s # <<>> /\ s[Len(s)] \in set THEN 1 + TrailRun(SubSeq(s, 1, Len(s) - 1), set) ELSE 0

\* str.lstrip(chars)
LStrip(s, set) == SubSeq(s, LeadRun(s, set) + 1, Len(s))

\* str.rstrip(chars)
RStrip(s, set) == SubSeq(s, 1, Len(s) - TrailRun(s, set))

\* str.strip()
Strip(s) == RStrip(LStrip(s, WhiteSpace), WhiteSpace)

\* s.startswith(p)
StartsWith(s, p) == Len(p) <= Len(s) /\ SubSeq(s, 1, Len(p)) = p

\* sub in s
Contains(s, sub) == \E i \in 0..(Len(s) - Len(sub)) : SubSeq(s, i + 1, i + Len(sub)) = sub

\* str.replace(old, new) for a one-character old
RECURSIVE ReplaceChar(_, _, _)
ReplaceChar(s, old, new) ==
    IF s = <<>> THEN <<>>
    ELSE (IF Head(s) = old THEN new ELSE <<Head(s)>>) \o ReplaceChar(Tail(s), old, new)

\* ---------------------------------------------------------------- presets

M_DEEPSEEK == <<"d", "e", "e", "p", "s", "e", "e", "k", "-", "v", "3", ".", "1", ":", "6", "7", "1", "b", "-", "c", "l", "o", "u", "d">>

M_QWEN3_CODER == <<"q", "w", "e", "n", "3", "-", "c", "o", "d", "e", "r", ":", "4", "8", "0", "b", "-", "c", "l", "o", "u", "d">>

M_GLM == <<"g", "l", "m", "-", "4", ".", "6", ":", "c", "l", "o", "u", "d">>

M_GPT_OSS_120B == <<"g", "p", "t", "-", "o", "s", "s", ":", "1", "2", "0", "b", "-", "c", "l", "o", "u", "d">>

M_QWEN3_VL == <<"q", "w", "e", "n", "3", "-", "v", "l", ":", "2", "3", "5", "b", "-", "c", "l", "o", "u", "d">>

M_MINIMAX == <<"m", "i", "n", "i", "m", "a", "x", "-", "m", "2", ":", "c", "l", "o", "u", "d">>

M_GPT_OSS_20B == <<"g", "p", "t", "-", "o", "s", "s", ":", "2", "0", "b", "-", "c", "l", "o", "u", "d">>

\* MODEL_PRESETS, in declaration order; temperature in hundredths
MODEL_PRESETS ==
    <<[name |-> M_DEEPSEEK, context_window |-> 65536, ideal_max |-> 3000, cap |-> 8000, temperature |-> 30],
      [name |-> M_QWEN3_CODER, context_window |-> 131072, ideal_max |-> 1800, cap |-> 8192, temperature |-> 20],
      [name |-> M_GLM, context_window |-> 131072, ideal_max |-> 1600, cap |-> 8192, temperature |-> 35],
      [name |-> M_GPT_OSS_120B, context_window |-> 65536, ideal_max |-> 1400, cap |-> 8192, temperature |-> 35],
      [name |-> M_QWEN3_VL, context_window |-> 262144, ideal_max |-> 1500, cap |-> 6144, temperature |-> 40],
      [name |-> M_MINIMAX, context_window |-> 200000, ideal_max |-> 1200, cap |-> 8192, temperature |-> 40],
      [name |-> M_GPT_OSS_20B, context_window |-> 32768, ideal_max |-> 900, cap |-> 4096, temperature |-> 45]>>

\* MODEL_ALIASES, in declaration order: <<alias, canonical name>>
MODEL_ALIASES ==
    <<<<<<"d", "e", "e", "p", "s", "e", "e", "k">>, M_DEEPSEEK>>,
      <<<<"q", "w", "e", "n", "3", "-", "c", "o", "d", "e", "r">>, M_QWEN3_CODER>>,
      <<<<"g", "l", "m", "-", "4", ".", "6">>, M_GLM>>,
      <<<<"g", "p", "t", "-", "o", "s", "s", ":", "1", "2", "0", "b">>, M_GPT_OSS_120B>>,
      <<<<"q", "w", "e", "n", "3", "-", "v", "l">>, M_QWEN3_VL>>,
      <<<<"m", "i", "n", "i", "m", "a", "x", "-", "m", "2">>, M_MINIMAX>>,
      <<<<"g", "p", "t", "-", "o", "s", "s", ":", "2", "0", "b">>, M_GPT_OSS_20B>>>>

\* ---------------------------------------------------------------- resolver

PresetNames == {MODEL_PRESETS[i].name : i \in 1..Len(MODEL_PRESETS)}

\* the last alias that n contains, instead of the first
RECURSIVE FirstAlias_LastWins(_, _)
FirstAlias_LastWins(n, i) ==
    IF i > Len(MODEL_ALIASES) THEN None
    ELSE LET later == FirstAlias_LastWins(n, i + 1)
         IN  IF ~IsNone(later) THEN later
             ELSE IF Contains(n, MODEL_ALIASES[i][1]) THEN Some(MODEL_ALIASES[i][2])
             ELSE None

\* the loop of resolve_model from alias i on: the first alias that n contains
RECURSIVE FirstAlias(_, _)
FirstAlias(n, i) ==
    IF i > Len(MODEL_ALIASES) THEN None
    ELSE IF Contains(n, MODEL_ALIASES[i][1]) THEN Some(MODEL_ALIASES[i][2])
    ELSE FirstAlias(n, i + 1)

\* resolve_model(name); name is an Optional text
resolve_model(name) ==
    LET n == Lower(Strip(IF IsNone(name) THEN <<>> ELSE Val(name)))
        hit == FirstAlias(n, 1)
    IN  IF ~IsNone(hit) THEN Val(hit)
        ELSE IF ~IsNone(name) /\ Val(name) \in PresetNames THEN Val(name)
        ELSE M_QWEN3_CODER

\* MODEL_PRESETS.get(canon, MODEL_PRESETS["qwen3-coder:480b-cloud"])
PresetGet(canon) ==
    LET key == IF canon \in PresetNames THEN canon ELSE M_QWEN3_CODER
    IN  MODEL_PRESETS[CHOOSE i \in 1..Len(MODEL_PRESETS) : MODEL_PRESETS[i].name = key]

\* requested_max or ideal
OrIdeal(requested_max, ideal) ==
    IF IsNone(requested_max) \/ Val(requested_max) = 0 THEN ideal ELSE Val(requested_max)

\* the floor of 300 left out
ChosenMax_NoFloor(requested_max, ideal, cap) == Min(OrIdeal(requested_max, ideal), cap)

\* max(300, min(int(requested_max or ideal), cap))
ChosenMax(requested_max, ideal, cap) == Max(300, Min(OrIdeal(requested_max, ideal), cap))

\* choose_tokens_and_temp(model, requested_max, req_temp)
choose_tokens_and_temp(model, requested_max, req_temp) ==
    LET canon == resolve_model(model)
        preset == PresetGet(canon)
        chosen == ChosenMax(requested_max, preset.ideal_max, preset.cap)
        temperature == IF ~IsNone(req_temp) THEN Val(req_temp) ELSE preset.temperature
    IN  [chosen_max |-> chosen,
         temperature |-> temperature,
         meta |-> [model_canonical |-> canon,
                   context_window |-> preset.context_window,
                   ideal_max |-> preset.ideal_max,
                   cap |-> preset.cap,
                   chosen_max |-> chosen,
                   temperature |-> temperature]]

\* ---------------------------------------------------------------- helpers

\* the characters SAFE_NAME_RE keeps: [A-Za-z0-9._-]
SafeChars == AlnumChars \cup {".", "_", "-"}

\* SAFE_NAME_RE.sub("", s)
SafeNameSub(s) == SelectSeq(s, LAMBDA c : c \in SafeChars)

\* f"file_{uuid.uuid4().hex[:8]}", hex being the eight hexadecimal digits drawn
GeneratedName(hex) == <<"f", "i", "l", "e", "_">> \o hex

\* the leading dots kept
safe_name_KeepDots(name, hex) ==
    LET cleaned == SafeNameSub(ReplaceChar(Strip(name), " ", <<"_">>))
        bare == ReplaceChar(ReplaceChar(cleaned, "/", <<>>), "\\", <<>>)
    IN  IF bare # <<>> THEN bare ELSE GeneratedName(hex)

\* safe_name(name); hex is what uuid4 draws when the name comes out empty
safe_name(name, hex) ==
    LET cleaned == SafeNameSub(ReplaceChar(Strip(name), " ", <<"_">>))
        bare == ReplaceChar(ReplaceChar(LStrip(cleaned, {"."}), "/", <<>>), "\\", <<>>)
    IN  IF bare # <<>> THEN bare ELSE GeneratedName(hex)

Fence == <<BackTick, BackTick, BackTick>>

\* re.sub(r"^\s*(three backquotes)[a-zA-Z0-9]*\s*", "", t)
StripLeadingFence(t) ==
    LET ws == LeadRun(t, WhiteSpace)
        afterWs == SubSeq(t, ws + 1, Len(t))
        afterFence == SubSeq(afterWs, 4, Len(afterWs))
        afterTag == LStrip(afterFence, AlnumChars)
    IN  IF StartsWith(afterWs, Fence) THEN LStrip(afterTag, WhiteSpace) ELSE t

\* re.sub(r"\s*(three backquotes)\s*$", "", t)
StripTrailingFence(t) ==
    LET body == RStrip(t, WhiteSpace)
        n == Len(body)
    IN  IF n >= 3 /\ SubSeq(body, n - 2, n) = Fence
        THEN RStrip(SubSeq(body, 1, n - 3), WhiteSpace)
        ELSE t

\* strip_fences(txt); txt is an Optional text (None when the content is null)
strip_fences(txt) ==
    IF IsNone(txt) \/ Val(txt) = <<>> THEN txt
    ELSE Some(Strip(StripTrailingFence(StripLeadingFence(Strip(Val(txt))))))

OpenDelims == {"\"", Apostrophe, "("}

CloseDelims == {")", "\"", Apostrophe}

AssetsPrefix == <<"a", "s", "s", "e", "t", "s", "/">>

\* name.split("/")[-1]
RECURSIVE LastSegment(_)
LastSegment(name) ==
    IF name = <<>> \/ name[Len(name)] = "/" THEN <<>>
    ELSE LastSegment(SubSeq(name, 1, Len(name) - 1)) \o <<name[Len(name)]>>

\* html with the text ins put after each of the places at, from the place from on
RECURSIVE InsertAfter(_, _, _, _)
InsertAfter(html, from, at, ins) ==
    IF at = {} THEN SubSeq(html, from, Len(html))
    ELSE LET i == CHOOSE x \in at : \A y \in at : x <= y
         IN  SubSeq(html, from, i) \o ins \o InsertAfter(html, i + 1, at \ {i}, ins)

\* the pattern (["'(])base([)"']) matches html at i
RelativeMatchAt(html, base, i) ==
    LET n == Len(base)
    IN  /\ i >= 1
        /\ i <= Len(html)
        /\ html[i] \in OpenDelims
        /\ i + n + 1 <= Len(html)
        /\ SubSeq(html, i + 1, i + n) = base
        /\ html[i + n + 1] \in CloseDelims

\* re.sub takes the matches left to right and they do not overlap: the match at i
\* is taken unless i lies inside a match taken before it
RECURSIVE RelativeTaken(_, _, _)
RelativeTaken(html, base, i) ==
    /\ RelativeMatchAt(html, base, i)
    /\ \A j \in (i - Len(base) - 1)..(i - 1) :
          ~(RelativeMatchAt(html, base, j) /\ RelativeTaken(html, base, j))

\* re.sub(rf'(["\'(]){re.escape(base)}([)"\'])', rf'\1assets/{base}\2', html):
\* every match taken gets assets/ after its opening delimiter
SubRelative(html, base) ==
    InsertAfter(html, 1, {i \in 1..Len(html) : RelativeTaken(html, base, i)}, AssetsPrefix)

\* fix_img_paths_relative(html, image_names)
RECURSIVE fix_img_paths_relative(_, _)
fix_img_paths_relative(html, image_names) ==
    IF image_names = <<>> THEN html
    ELSE fix_img_paths_relative(SubRelative(html, LastSegment(Head(image_names))),
                                Tail(image_names))

\* /bundles/{bundle_id}/, what the replacement puts between \1 and assets/
BundlePrefix(bundle_id) == <<"/", "b", "u", "n", "d", "l", "e", "s", "/">> \o bundle_id \o <<"/">>

\* the pattern (["'(])assets/ matches html at i; two matches never overlap, as
\* no character of assets/ is a delimiter
PreviewMatchAt(html, i) ==
    html[i] \in OpenDelims /\ SubSeq(html, i + 1, Min(Len(html), i + Len(AssetsPrefix))) = AssetsPrefix

\* absolutize_for_preview(html, bundle_id):
\* re.sub(r'(["\'(])assets/', rf'\1/bundles/{bundle_id}/assets/', html)
absolutize_for_preview(html, bundle_id) ==
    InsertAfter(html, 1, {i \in 1..Len(html) : PreviewMatchAt(html, i)}, BundlePrefix(bundle_id))

\* ---------------------------------------------------------------- normaliser

HtmlToken == <<"<", "h", "t", "m", "l">>

FallbackHead ==
    <<"<", "!", "D", "O", "C", "T", "Y", "P", "E", " ", "h", "t", "m", "l", ">", "<", "h", "t",
      "m", "l", " ", "l", "a", "n", "g", "=", Apostrophe, "d", "e", Apostrophe, ">", "<", "h", "e", "a", "d",
      ">", "<", "m", "e", "t", "a", " ", "c", "h", "a", "r", "s", "e", "t", "=", Apostrophe, "u", "t",
      "f", "-", "8", Apostrophe, ">", "<", "m", "e", "t", "a", " ", "n", "a", "m", "e", "=", Apostrophe, "v",
      "i", "e", "w", "p", "o", "r", "t", Apostrophe, " ", "c", "o", "n", "t", "e", "n", "t", "=", Apostrophe,
      "w", "i", "d", "t", "h", "=", "d", "e", "v", "i", "c", "e", "-", "w", "i", "d", "t", "h",
      ",", "i", "n", "i", "t", "i", "a", "l", "-", "s", "c", "a", "l", "e", "=", "1", Apostrophe, ">",
      "<", "t", "i", "t", "l", "e", ">", "E", "n", "t", "w", "u", "r", "f", "<", "/", "t", "i",
      "t", "l", "e", ">", "<", "s", "t", "y", "l", "e", ">", "b", "o", "d", "y", "{", "f", "o",
      "n", "t", "-", "f", "a", "m", "i", "l", "y", ":", "A", "r", "i", "a", "l", ";", "p", "a",
      "d", "d", "i", "n", "g", ":", "2", "4", "p", "x", ";", "m", "a", "x", "-", "w", "i", "d",
      "t", "h", ":", "9", "0", "0", "p", "x", ";", "m", "a", "r", "g", "i", "n", ":", "0", " ",
      "a", "u", "t", "o", "}", "<", "/", "s", "t", "y", "l", "e", ">", "<", "/", "h", "e", "a",
      "d", ">", "<", "b", "o", "d", "y", ">", "<", "h", "1", ">", "E", "n", "t", "w", "u", "r",
      "f", "<", "/", "h", "1", ">", "<", "p", "r", "e", ">">>

FallbackTail == <<"<", "/", "p", "r", "e", ">", "<", "/", "b", "o", "d", "y", ">", "<", "/", "h", "t", "m", "l", ">">>

\* the fallback document of generate, with the content between <pre> and </pre>
FallbackDocument(content) == FallbackHead \o content \o FallbackTail

\* "<html" not in html.lower()
LacksHtmlToken(html) == ~Contains(Lower(html), HtmlToken)

\* generate, from strip_fences to the fallback: content is a text
NormalizeContent(content) ==
    LET html == Val(strip_fences(Some(content)))
    IN  IF LacksHtmlToken(html) THEN FallbackDocument(content) ELSE html

\* ---------------------------------------------------------------- JSON values

JNull == [t |-> "null", v |-> <<>>]

JStr(s) == [t |-> "str", v |-> s]

JNum(n) == [t |-> "num", v |-> n]

JList(items) == [t |-> "list", v |-> items]

\* a JSON object; d is a record (or <<>> for {})
JDict(d) == [t |-> "dict", v |-> d]

Ok(v) == [ok |-> TRUE, v |-> v]

Raise(e) == [ok |-> FALSE, error |-> e]

\* x.get(key, default), x being any parsed value
PyGet(x, key, default) ==
    IF x.t # "dict" THEN Raise("AttributeError")
    ELSE IF key \in DOMAIN x.v THEN Ok(x.v[key]) ELSE Ok(default)

\* x[0], x being any parsed value
PyFirst(x) ==
    CASE x.t = "list" -> IF Len(x.v) > 0 THEN Ok(x.v[1]) ELSE Raise("IndexError")
      [] x.t = "str"  -> IF Len(x.v) > 0 THEN Ok(JStr(<<x.v[1]>>)) ELSE Raise("IndexError")
      [] x.t = "dict" -> Raise("KeyError")
      [] OTHER        -> Raise("TypeError")

\* data.get("choices", [{}])[0].get("message", {}).get("content", "")
ExtractContent(data) ==
    LET choices == PyGet(data, "choices", JList(<<JDict(<<>>)>>))
        first == IF choices.ok THEN PyFirst(choices.v) ELSE choices
        message == IF first.ok THEN PyGet(first.v, "message", JDict(<<>>)) ELSE first
    IN  IF message.ok THEN PyGet(message.v, "content", JStr(<<>>)) ELSE message

\* generate from strip_fences(content) to the fallback, for any parsed content:
\* the html, or the exception strip_fences or html.lower() raises when the content
\* is no text
Normalized(content) ==
    IF content.t = "str" THEN Ok(NormalizeContent(content.v)) ELSE Raise("AttributeError")

\* data.get("usage", {}) if isinstance(data.get("usage", {}), dict) else {}
ExtractUsage(data) ==
    LET u == PyGet(data, "usage", JDict(<<>>))
    IN  IF u.ok /\ u.v.t = "dict" THEN u.v ELSE JDict(<<>>)

\* ---------------------------------------------------------------- bundles

\* the upload names and bundle identifiers of the model, in code point order
AsciiOrder == <<"-", ".">> \o DigitSeq \o UpperSeq \o <<"_">> \o LowerSeq

Code(c) == CHOOSE i \in 1..Len(AsciiOrder) : AsciiOrder[i] = c

\* a < b for two texts, as Python compares str
RECURSIVE TextLess(_, _)
TextLess(a, b) ==
    IF b = <<>> THEN FALSE
    ELSE IF a = <<>> THEN TRUE
    ELSE IF Head(a) = Head(b) THEN TextLess(Tail(a), Tail(b))
    ELSE Code(Head(a)) < Code(Head(b))

\* sorted(names), names being a set of texts
RECURSIVE Sorted(_)
Sorted(names) ==
    IF names = {} THEN <<>>
    ELSE LET least == CHOOSE n \in names : \A m \in names \ {n} : TextLess(n, m)
         IN  <<least>> \o Sorted(names \ {least})

\* no regular file
NoFiles == <<>>

\* the tree under BUNDLES_DIR: the directories and the regular files, each a path
\* of segments from BUNDLES_DIR, a file with its content. At start BUNDLES_DIR is
\* there and empty
EmptyTree == [dirs |-> {<<>>}, files |-> NoFiles]

\* uuid.uuid4().hex[:12], the identifiers uuid4 draws in the model
MintedIds == {<<"0", "f", "3", "a", "9", "c", "1", "e", "7", "7", "b", "2">>}

B1 == <<"b", "1">>

AssetsDirName == <<"a", "s", "s", "e", "t", "s">>

IndexName == <<"i", "n", "d", "e", "x", ".", "h", "t", "m", "l">>

\* an identifier that is a path: the assets directory of the bundle b1
B1Assets == B1 \o <<"/">> \o AssetsDirName

\* the bundle identifiers a client supplies
SuppliedIds == {B1, B1Assets}

BundleIds == SuppliedIds \cup MintedIds

\* the identifiers the route /bundle/{bundle_id}.zip takes: one path segment
RoutedIds == {b \in BundleIds : \A i \in 1..Len(b) : b[i] # "/"}

\* bundle_id or uuid.uuid4().hex[:12]: the identifiers ensure_bundle may settle on
EnsureIds(bundle_id) ==
    IF IsNone(bundle_id) \/ Val(bundle_id) = <<>> THEN MintedIds ELSE {Val(bundle_id)}

\* the segments of a relative path as pathlib keeps them: split on "/", the empty
\* and "." segments dropped
RECURSIVE PathParts(_, _)
PathParts(path, current) ==
    LET done == IF current = <<>> \/ current = <<".">> THEN <<>> ELSE <<current>>
    IN  IF path = <<>> THEN done
        ELSE IF Head(path) = "/" THEN done \o PathParts(Tail(path), <<>>)
        ELSE PathParts(Tail(path), current \o <<Head(path)>>)

DotDot == <<".", ".">>

\* BUNDLES_DIR / bid, for an identifier that is relative and has no .. segment,
\* as are those of the model
BundleDir(bid) == PathParts(bid, <<>>)

\* BUNDLES_DIR / bid / "assets"
AssetsDir(bid) == BundleDir(bid) \o <<AssetsDirName>>

\* BUNDLES_DIR / bundle_id / "index.html"
IndexPath(bid) == BundleDir(bid) \o <<IndexName>>

\* the path and the paths above it
Prefixes(path) == {SubSeq(path, 1, k) : k \in 0..Len(path)}

\* mkdir(parents=True, exist_ok=True) raises FileExistsError or NotADirectoryError:
\* a regular file is in the way, and then nothing is created
EnsureFails(dirs, bid) ==
    dirs.files # NoFiles /\ \E p \in Prefixes(AssetsDir(bid)) : p \in DOMAIN dirs.files

\* the exception ensure_bundle raises, "" when it raises none
EnsureError(dirs, bid) ==
    IF AssetsDir(bid) \in DOMAIN dirs.files THEN "FileExistsError"
    ELSE IF EnsureFails(dirs, bid) THEN "NotADirectoryError"
    ELSE ""

\* (BUNDLES_DIR / bid / "assets").mkdir(parents=True, exist_ok=True)
ensure_bundle(dirs, bid) ==
    IF EnsureFails(dirs, bid) THEN dirs
    ELSE [dirs EXCEPT !.dirs = @ \cup Prefixes(AssetsDir(bid))]

\* a surrogate code point on its own, as json.loads makes of a lone \ud800 escape;
\* one character of a str that the utf-8 codec does not encode
LoneSurrogate == "SURROGATE"

\* html.encode("utf-8") does not raise UnicodeEncodeError
Encodable(html) == \A i \in 1..Len(html) : html[i] # LoneSurrogate

\* out.write_text(html, encoding="utf-8"): the file is opened for writing, which
\* creates or empties it, then html is encoded and written in one piece; when
\* the encoding raises, nothing is written and the file is left empty
write_text(html) == IF Encodable(html) THEN html ELSE <<>>

\* open(path, "w") or open(path, "wb") and the write: a directory is not opened
\* (IsADirectoryError) and the tree stays as it is
WriteFile(dirs, path, data) ==
    IF path \in dirs.dirs THEN dirs ELSE [dirs EXCEPT !.files = (path :> data) @@ @]

\* the exception write_html raises, "" when it raises none
WriteHtmlError(dirs, bundle_id, html) ==
    IF IndexPath(bundle_id) \in dirs.dirs THEN "IsADirectoryError"
    ELSE IF ~Encodable(html) THEN "UnicodeEncodeError"
    ELSE ""

\* an index.html that is there kept as it is
write_html_KeepFirst(dirs, bundle_id, html) ==
    IF IndexPath(bundle_id) \in DOMAIN dirs.files THEN dirs
    ELSE WriteFile(dirs, IndexPath(bundle_id), write_text(html))

\* write_html(bundle_id, html)
write_html(dirs, bundle_id, html) == WriteFile(dirs, IndexPath(bundle_id), write_text(html))

\* BUNDLES_DIR / bid exists
BundleExists(dirs, bid) == BundleDir(bid) \in dirs.dirs \cup DOMAIN dirs.files

\* the index.html of a bundle: None, or Some of its text
IndexOf(dirs, bid) ==
    IF IndexPath(bid) \in DOMAIN dirs.files THEN Some(dirs.files[IndexPath(bid)]) ELSE None

\* the regular files in the assets directory of a bundle, name -> bytes
AssetsOf(dirs, bid) ==
    LET assets_dir == AssetsDir(bid)
        names == {p[Len(p)] : p \in {q \in DOMAIN dirs.files :
                                        /\ Len(q) = Len(assets_dir) + 1
                                        /\ SubSeq(q, 1, Len(q) - 1) = assets_dir}}
    IN  [n \in names |-> dirs.files[assets_dir \o <<n>>]]

\* (assets_dir / name).write_bytes(data)
write_bytes(dirs, bid, name, data) == WriteFile(dirs, AssetsDir(bid) \o <<name>>, data)

\* a place in the file system: a directory or a regular file under BUNDLES_DIR
\* with its path, a "missing" path, a directory "above" BUNDLES_DIR, or an
\* "unknown" path, of which the model knows nothing
At(kind, path) == [k |-> kind, p |-> path]

\* one segment of a path resolved from the place at, as the system resolves it
PathStep(dirs, at, seg) ==
    CASE at.k = "unknown" -> at
      [] at.k \in {"file", "missing"} -> At("missing", <<>>)
      [] at.k = "above" -> IF seg = DotDot THEN at ELSE At("unknown", <<>>)
      [] at.k = "dir" ->
            IF seg = DotDot
            THEN IF at.p = <<>> THEN At("above", <<>>)
                 ELSE At("dir", SubSeq(at.p, 1, Len(at.p) - 1))
            ELSE IF at.p \o <<seg>> \in dirs.dirs THEN At("dir", at.p \o <<seg>>)
            ELSE IF at.p \o <<seg>> \in DOMAIN dirs.files THEN At("file", at.p \o <<seg>>)
            ELSE At("missing", <<>>)

RECURSIVE PathWalk(_, _, _)
PathWalk(dirs, at, parts) ==
    IF parts = <<>> THEN at ELSE PathWalk(dirs, PathStep(dirs, at, Head(parts)), Tail(parts))

\* where assets_dir / n leads; an absolute n replaces assets_dir
AssetPath(dirs, bid, n) ==
    IF n # <<>> /\ Head(n) = "/" THEN At("unknown", <<>>)
    ELSE PathWalk(dirs, At("dir", AssetsDir(bid)), PathParts(n, <<>>))

\* (assets_dir / n).exists()
AssetExists(dirs, bid, n) == AssetPath(dirs, bid, n).k \notin {"missing", "unknown"}

\* sorted([p.name for p in assets_dir.glob("*") if p.is_file()])
images_on_disk(dirs, bid) == Sorted(DOMAIN AssetsOf(dirs, bid))

\* the directory never listed
CollectNames_GivenOnly(dirs, bid, image_names) ==
    IF IsNone(image_names) THEN <<>>
    ELSE SelectSeq(Val(image_names), LAMBDA n : AssetExists(dirs, bid, n))

\* [n for n in (req.image_names or images_on_disk) if (assets_dir / n).exists()]
CollectNames(dirs, bid, image_names) ==
    LET wanted == IF IsNone(image_names) \/ Val(image_names) = <<>>
                  THEN images_on_disk(dirs, bid) ELSE Val(image_names)
    IN  SelectSeq(wanted, LAMBDA n : AssetExists(dirs, bid, n))

\* ---------------------------------------------------------------- state

VARIABLES
    OLLAMA_API_KEY,  \* the credential read from the environment at start, a text
    bundles,         \* BUNDLES_DIR: for each identifier None, or Some of the
                     \* directory [assets: name -> bytes, index: Optional html]
    task,            \* the /generate requests in flight, one per task
    last,            \* the request the last step completed, with its response, or
                     \* NoRequest when the step completed none
    persisted,       \* per bundle, the html field of the last successful /generate
    pure             \* the pure function applied, its arguments and its result

vars == <<OLLAMA_API_KEY, bundles, task, last, persisted, pure>>

serverVars == <<OLLAMA_API_KEY, bundles, task, last, persisted>>

\* the tasks that may handle a /generate request at the same time
Tasks == {"t1", "t2"}

\* retriable = {408, 502, 503, 504}
retriable == {408, 502, 503, 504}

\* range(2): the attempts of call_provider
Attempts == 2

\* the outcome of a client.post that raises httpx.RequestError, where the other
\* outcomes are the HTTP status of the response
RequestError == 0

\* the detail of an HTTPException, or the name of an exception nothing handles;
\* status is the upstream status of a "Provider" detail and 0 otherwise
Detail(kind, status) == [kind |-> kind, status |-> status]

IdleTask ==
    [pc |-> "idle", req |-> <<>>, bid |-> <<>>, names |-> <<>>, picked |-> <<>>,
     payload |-> <<>>, attempt |-> 0, calls |-> 0, outcomes |-> <<>>]

\* a completed request: the operation, the task that ran it, the request, the HTTP
\* status, the detail of an HTTPException or the name of an exception nothing
\* handles, the body of a 200 response, the number of client.post calls made, the
\* outcome of each, and what call_provider returned (None when it did not return)
Done(op, t, req, status, detail, body, calls, outcomes, answer) ==
    [op |-> op, t |-> t, req |-> req, status |-> status, detail |-> detail, body |-> body,
     calls |-> calls, outcomes |-> outcomes, answer |-> answer]

NoRequest == Done("none", "", <<>>, 0, Detail("", 0), None, 0, <<>>, None)

\* a completed /generate
GenerateDone(t, req, status, detail, body, calls, outcomes, answer) ==
    Done("generate", t, req, status, detail, body, calls, outcomes, answer)

\* the key check left out
KeyMissing_Never(key) == FALSE

\* not OLLAMA_API_KEY
KeyMissing(key) == key = <<>>

\* every server error retried
ShouldRetry_ServerErrors(status, attempt) == status >= 500 /\ attempt = 0

\* a retriable status retried on whichever attempt
ShouldRetry_AnyAttempt(status, attempt) == status \in retriable

\* r.status_code in retriable and attempt == 0
ShouldRetry(status, attempt) == status \in retriable /\ attempt = 0

\* a retriable status not taken for an error on the last attempt
IsProviderError_NotRetriable(status) == status >= 400 /\ status \notin retriable

\* r.status_code >= 400
IsProviderError(status) == status >= 400

\* the user message of generate: the prompt and the enumerated asset list
UserMessage(prompt, names) == [prompt |-> prompt, images |-> names]

\* the payload of generate
Payload(req, picked, names) ==
    [model |-> picked.meta.model_canonical,
     user |-> UserMessage(req.prompt, names),
     temperature |-> picked.temperature,
     max_tokens |-> picked.chosen_max,
     stream |-> FALSE]

\* not req.prompt
PromptMissing(req) == req.prompt = <<>>

\* generate, up to the first client.post of call_provider
Generate(t, req, bid) ==
    /\ task[t].pc = "idle"
    /\ bid \in EnsureIds(req.bundle_id)
    /\ UNCHANGED <<OLLAMA_API_KEY, pure>>
    /\ IF PromptMissing(req)
       THEN /\ last' = GenerateDone(t, req, 400, Detail("prompt fehlt", 0), None, 0, <<>>, None)
            /\ UNCHANGED <<bundles, task, persisted>>
       ELSE IF EnsureFails(bundles, bid)
       THEN /\ last' = GenerateDone(t, req, 500, Detail(EnsureError(bundles, bid), 0), None, 0, <<>>,
                                     None)
            /\ UNCHANGED <<bundles, task, persisted>>
       ELSE LET picked == choose_tokens_and_temp(req.model, req.max_tokens, req.temperature)
                dirs == ensure_bundle(bundles, bid)
                names == CollectNames(dirs, bid, req.image_names)
            IN  /\ bundles' = dirs
                /\ UNCHANGED persisted
                /\ IF KeyMissing(OLLAMA_API_KEY)
                   THEN /\ last' = GenerateDone(t, req, 500, Detail("OLLAMA_API_KEY fehlt", 0), None, 0, <<>>,
                                                    None)
                        /\ UNCHANGED task
                   ELSE /\ task' = [task EXCEPT ![t] =
                                [pc |-> "post", req |-> req, bid |-> bid, names |-> names,
                                 picked |-> picked, payload |-> Payload(req, picked, names),
                                 attempt |-> 0, calls |-> 1, outcomes |-> <<>>]]
                        /\ last' = NoRequest

\* generate after call_provider returned data: normalise, rewrite, persist, respond
Respond(t, data, outcomes) ==
    LET me == task[t]
        content == ExtractContent(data)
        html == IF content.ok THEN Normalized(content.v) ELSE content
    IN  IF ~html.ok
        THEN /\ last' = GenerateDone(t, me.req, 500, Detail(html.error, 0), None, me.calls, outcomes,
                                  Some(data))
             /\ UNCHANGED <<bundles, persisted>>
        ELSE LET html_saved == IF me.names # <<>>
                               THEN fix_img_paths_relative(html.v, me.names) ELSE html.v
                 html_preview == absolutize_for_preview(html_saved, me.bid)
                 body == [bundle_id |-> me.bid, html |-> html_saved,
                          html_preview |-> html_preview, meta |-> ExtractUsage(data),
                          assets |-> me.names, applied |-> me.picked.meta]
                 error == WriteHtmlError(bundles, me.bid, html_saved)
             IN  /\ bundles' = write_html(bundles, me.bid, html_saved)
                 /\ IF error = ""
                    THEN /\ last' = GenerateDone(t, me.req, 200, Detail("", 0), Some(body),
                                                 me.calls, outcomes, Some(data))
                         /\ persisted' = [persisted EXCEPT ![me.bid] = Some(body.html)]
                    ELSE /\ last' = GenerateDone(t, me.req, 500, Detail(error, 0), None,
                                                 me.calls, outcomes, Some(data))
                         /\ UNCHANGED persisted

\* client.post answers with a status: retry, raise, or return r.json(); json is
\* None when the body is no JSON, and r.json() raises
PostStatus(t, status, json) ==
    LET me == task[t]
        outcomes == Append(me.outcomes, status)
    IN  /\ me.pc = "post"
        /\ UNCHANGED <<OLLAMA_API_KEY, pure>>
        /\ IF ShouldRetry(status, me.attempt)
           THEN /\ task' = [task EXCEPT ![t] = [me EXCEPT !.attempt = 1, !.calls = @ + 1,
                                                          !.outcomes = outcomes]]
                /\ last' = NoRequest
                /\ UNCHANGED <<bundles, persisted>>
           ELSE /\ task' = [task EXCEPT ![t] = IdleTask]
                /\ IF IsProviderError(status)
                   THEN /\ last' = GenerateDone(t, me.req, 502, Detail("Provider", status), None,
                                                me.calls, outcomes, None)
                        /\ UNCHANGED <<bundles, persisted>>
                   ELSE IF IsNone(json)
                   THEN /\ last' = GenerateDone(t, me.req, 500, Detail("JSONDecodeError", 0), None,
                                                me.calls, outcomes, None)
                        /\ UNCHANGED <<bundles, persisted>>
                   ELSE Respond(t, Val(json), outcomes)

\* client.post raises httpx.RequestError
PostRequestError(t) ==
    LET me == task[t]
        outcomes == Append(me.outcomes, RequestError)
    IN  /\ me.pc = "post"
        /\ UNCHANGED <<OLLAMA_API_KEY, bundles, persisted, pure>>
        /\ IF me.attempt = 0
           THEN /\ task' = [task EXCEPT ![t] = [me EXCEPT !.attempt = 1, !.calls = @ + 1,
                                                          !.outcomes = outcomes]]
                /\ last' = NoRequest
           ELSE /\ task' = [task EXCEPT ![t] = IdleTask]
                /\ last' = GenerateDone(t, me.req, 502, Detail("Netzwerkfehler", 0), None,
                                        me.calls, outcomes, None)

\* uf.filename or "upload"
FilenameOr(filename) ==
    IF IsNone(filename) \/ Val(filename) = <<>> THEN <<"u", "p", "l", "o", "a", "d">>
    ELSE Val(filename)

\* safe_name(uf.filename or "upload")
StoredName(filename, hex) == safe_name(FilenameOr(filename), hex)

\* the loop of upload from file i on; hexes[i] is what uuid4 draws for file i. A
\* write_bytes that raises ends the loop, the files before it stored
RECURSIVE StoreFiles(_, _, _, _, _, _)
StoreFiles(dirs, bid, files, hexes, i, saved) ==
    IF i > Len(files) THEN [dirs |-> dirs, saved |-> saved, error |-> ""]
    ELSE LET name == StoredName(files[i].filename, hexes[i])
         IN  IF AssetsDir(bid) \o <<name>> \in dirs.dirs
             THEN [dirs |-> dirs, saved |-> saved, error |-> "IsADirectoryError"]
             ELSE StoreFiles(write_bytes(dirs, bid, name, files[i].bytes), bid, files, hexes,
                             i + 1, Append(saved, name))

\* upload(files, bundle_id)
Upload(files, bundle_id, bid, hexes) ==
    LET request == [files |-> files, bundle_id |-> bundle_id]
        stored == StoreFiles(ensure_bundle(bundles, bid), bid, files, hexes, 1, <<>>)
    IN  /\ bid \in EnsureIds(bundle_id)
        /\ UNCHANGED <<OLLAMA_API_KEY, task, persisted, pure>>
        /\ IF EnsureFails(bundles, bid)
           THEN /\ UNCHANGED bundles
                /\ last' = Done("upload", "", request, 500, Detail(EnsureError(bundles, bid), 0),
                                None, 0, <<>>, None)
           ELSE /\ bundles' = stored.dirs
                /\ last' = IF stored.error = ""
                           THEN Done("upload", "", request, 200, Detail("", 0),
                                     Some([bundle_id |-> bid, assets |-> stored.saved]),
                                     0, <<>>, None)
                           ELSE Done("upload", "", request, 500, Detail(stored.error, 0), None,
                                     0, <<>>, None)

\* str(p.relative_to(bundle_dir)): the segments joined by "/"
RECURSIVE JoinPath(_)
JoinPath(parts) ==
    IF Len(parts) <= 1 THEN (IF parts = <<>> THEN <<>> ELSE Head(parts))
    ELSE Head(parts) \o <<"/">> \o JoinPath(Tail(parts))

\* the regular files under the directory at path, whatever their depth
FilesUnder(dirs, path) ==
    {p \in DOMAIN dirs.files : Len(p) > Len(path) /\ SubSeq(p, 1, Len(path)) = path}

\* the files bundle_dir.rglob("*") finds, as <<arcname, content>>
BundleFiles(dirs, bundle_id) ==
    LET bundle_dir == BundleDir(bundle_id)
    IN  {<<JoinPath(SubSeq(p, Len(bundle_dir) + 1, Len(p))), dirs.files[p]>> :
            p \in FilesUnder(dirs, bundle_dir)}

\* download_bundle(bundle_id)
DownloadBundle(bundle_id) ==
    /\ last' = IF ~BundleExists(bundles, bundle_id)
               THEN Done("download", "", [bundle_id |-> bundle_id], 404,
                         Detail("Bundle nicht gefunden", 0), None, 0, <<>>, None)
               ELSE Done("download", "", [bundle_id |-> bundle_id], 200, Detail("", 0),
                         Some([entries |-> BundleFiles(bundles, bundle_id)]), 0, <<>>,
                         None)
    /\ UNCHANGED <<OLLAMA_API_KEY, bundles, task, persisted, pure>>

\* ---------------------------------------------------------------- the server

\* the environment: no key, or a key
ApiKeys == {<<>>, <<"k">>}

NameA == <<"a">>

\* the body of a chat completion with the given content
Completion(content) ==
    JDict([choices |-> JList(<<JDict([message |-> JDict([content |-> content])])>>),
           usage |-> JDict([total_tokens |-> JNum(7)])])

\* a page that refers to the asset a by its bare name, once in quotes and once in
\* parentheses
PageWithA == <<"<", "h", "t", "m", "l", ">", "\"", "a", "\"", "(", "a", ")">>

\* a fenced page in upper case that refers to assets/a
FencedPage ==
    Fence \o <<"h", "t", "m", "l", "\n", "<", "H", "T", "M", "L", ">", "(", Apostrophe, "a", "s",
               "s", "e", "t", "s", "/", "a", Apostrophe, ")", "\n">> \o Fence

PlainText == <<"n", "o", " ", "(", "a", ")">>

\* a page with a character that utf-8 does not encode
UnstorablePage == <<"<", "h", "t", "m", "l", ">", LoneSurrogate>>

NoPure == [fn |-> "none"]

\* the requests and upstream answers of Spec
SpecPrompts == {<<"p">>}

SpecImageNames == {None}

SpecStatuses == {200, 404}

SpecBodies == <<Some(Completion(JStr(PageWithA))), Some(Completion(JStr(UnstorablePage)))>>

GenReqs(prompts, imageNames) ==
    [prompt : prompts, model : {Some(M_QWEN3_CODER)}, max_tokens : {None},
     temperature : {None}, bundle_id : {None, Some(B1)}, image_names : imageNames]

HexDraws == {<<"0", "a", "1", "b", "2", "c", "3", "d">>}

UploadFilenames == {Some(NameA)}

UploadBytes == {<<"x">>}

MaxFiles == 1

UploadLists ==
    UNION {[1..n -> [filename : UploadFilenames, bytes : UploadBytes]] : n \in 1..MaxFiles}

Init ==
    /\ OLLAMA_API_KEY \in ApiKeys
    /\ bundles = EmptyTree
    /\ task = [t \in Tasks |-> IdleTask]
    /\ last = NoRequest
    /\ persisted = [b \in BundleIds |-> None]
    /\ pure = NoPure

\* the steps of /generate for the given tasks and requests, the upstream answering
\* with one of the statuses and one of the bodies (a sequence)
GenerateSteps(tasks, reqs, statuses, bodies) ==
    \/ \E t \in tasks, req \in reqs : \E bid \in EnsureIds(req.bundle_id) : Generate(t, req, bid)
    \/ \E t \in tasks, status \in statuses, k \in 1..Len(bodies) :
          PostStatus(t, status, bodies[k])
    \/ \E t \in tasks : PostRequestError(t)

\* the steps of /upload and of the download, for the given bundle_id fields
UploadSteps(ids) ==
    \/ \E files \in UploadLists, bundle_id \in ids :
          \E bid \in EnsureIds(bundle_id), hexes \in [1..Len(files) -> HexDraws] :
             Upload(files, bundle_id, bid, hexes)
    \/ \E bundle_id \in RoutedIds : DownloadBundle(bundle_id)

BundleSteps == UploadSteps({None, Some(B1)})

Next ==
    \/ GenerateSteps(Tasks, GenReqs(SpecPrompts, SpecImageNames), SpecStatuses, SpecBodies)
    \/ BundleSteps

Spec == Init /\ [][Next]_vars

\* ---------------------------------------------------------------- the upstream client

\* the prompts of SpecClient: none, blank ones and a real one
ClientPrompts == {<<>>, <<" ">>, <<"\n", " ">>, <<"p">>}

\* the upstream statuses of SpecClient: below 400, retriable, and other errors
ClientStatuses == {200, 204, 301, 399, 400, 401, 404, 408, 429, 500, 502, 503, 504, 599}

\* the bodies of SpecClient: no JSON at all, then the shapes of a parsed body
ClientBodies ==
    <<None,
      Some(Completion(JStr(PageWithA))),
      Some(Completion(JStr(FencedPage))),
      Some(Completion(JStr(PlainText))),
      Some(Completion(JStr(<<>>))),
      Some(Completion(JNull)),
      Some(JDict(<<>>)),
      Some(JDict([choices |-> JList(<<>>)])),
      Some(JDict([choices |-> JNull])),
      Some(JDict([choices |-> JList(<<JDict(<<>>)>>)])),
      Some(JDict([choices |-> JList(<<JDict([message |-> JNull])>>)])),
      Some(JDict([choices |-> JList(<<JDict([message |-> JDict(<<>>)])>>)])),
      Some(JDict([choices |-> JList(<<JDict([message |-> JDict([content |-> JStr(PlainText)])])>>),
                  usage |-> JNum(3)])),
      Some(JList(<<>>)),
      Some(JNull)>>

ClientReqs ==
    [prompt : ClientPrompts, model : {Some(M_QWEN3_CODER)}, max_tokens : {None},
     temperature : {None}, bundle_id : {Some(B1)}, image_names : {None}]

\* /generate requests one after the other, with every upstream answer
NextClient == GenerateSteps({"t1"}, ClientReqs, ClientStatuses, ClientBodies)

SpecClient == Init /\ [][NextClient]_vars

\* text.strip() is empty
Blank(text) == Strip(text) = <<>>

Generated == last.op = "generate"

\* the last outcome of the request just completed
FinalOutcome == last.outcomes[Len(last.outcomes)]

\* C1: a /generate request whose prompt is empty or only whitespace fails with
\* HTTP 400 and makes no upstream call: no task with such a prompt is ever at a
\* client.post, and its response is 400 after zero calls.
C1_BlankPromptRejected ==
    /\ \A t \in Tasks : task[t].pc = "post" => ~Blank(task[t].req.prompt)
    /\ (Generated /\ Blank(last.req.prompt)) => (last.status = 400 /\ last.calls = 0)

\* C2: a retriable status answered by 200 gives exactly one retry (two calls) and
\* call_provider returns the parsed body; retriable statuses on every attempt end
\* in HTTP 502 carrying the last status after Attempts calls, the task making no
\* further call.
C2_RetryThenResult ==
    Generated =>
        /\ (/\ Len(last.outcomes) = 2
            /\ last.outcomes[1] \in retriable
            /\ last.outcomes[2] = 200)
           => /\ last.calls = 2
              /\ \/ ~IsNone(last.answer)
                 \/ last.detail = Detail("JSONDecodeError", 0)
              /\ last.status # 502
        /\ (/\ last.outcomes # <<>>
            /\ \A i \in 1..Len(last.outcomes) : last.outcomes[i] \in retriable)
           => /\ last.status = 502
              /\ last.detail = Detail("Provider", FinalOutcome)
              /\ last.calls = Attempts
              /\ Len(last.outcomes) = Attempts
              /\ task[last.t].pc = "idle"

C2_Witness ==
    /\ Generated
    /\ last.outcomes = <<503, 200>>
    /\ last.calls = 2
    /\ last.status = 200

C2_WitnessExhausted == Generated /\ last.outcomes = <<503, 503>> /\ last.status = 502

\* C3: a status >= 400 that is not retriable ends the request at once, on
\* whichever attempt, as HTTP 502 carrying that status, and no call follows it;
\* a transport failure on every attempt ends it as the network error, which
\* carries no provider status.
C3_NonRetriableSurfaces ==
    /\ \A t \in Tasks : task[t].pc = "post" =>
          /\ task[t].calls = Len(task[t].outcomes) + 1
          /\ \A i \in 1..Len(task[t].outcomes) :
                task[t].outcomes[i] \in retriable \cup {RequestError}
    /\ (Generated /\ last.outcomes # <<>>) =>
          /\ (FinalOutcome >= 400 /\ FinalOutcome \notin retriable)
             => /\ last.status = 502
                /\ last.detail = Detail("Provider", FinalOutcome)
                /\ last.calls = Len(last.outcomes)
                /\ task[last.t].pc = "idle"
          /\ (\A i \in 1..Len(last.outcomes) : last.outcomes[i] = RequestError)
             => /\ last.status = 502
                /\ last.detail = Detail("Netzwerkfehler", 0)
                /\ last.calls = Attempts

C3_Witness ==
    /\ Generated
    /\ last.outcomes = <<RequestError, 404>>
    /\ last.detail = Detail("Provider", 404)

C3_WitnessNetwork == Generated /\ last.outcomes = <<RequestError, RequestError>>

\* C4: without an API key no task is ever at a client.post, and every /generate
\* request with a prompt that is not blank fails with HTTP 500, the key missing,
\* after zero calls.
C4_NoKeyNoCall ==
    OLLAMA_API_KEY = <<>> =>
        /\ \A t \in Tasks : task[t].pc = "idle" /\ task[t].calls = 0
        /\ (Generated /\ ~Blank(last.req.prompt))
           => /\ last.status = 500
              /\ last.detail = Detail("OLLAMA_API_KEY fehlt", 0)
              /\ last.calls = 0

C4_Witness ==
    /\ OLLAMA_API_KEY = <<>>
    /\ Generated
    /\ last.req.prompt = <<"p">>
    /\ last.status = 500

\* C5: whatever the shape of the parsed body call_provider returned, the request
\* succeeds and the html returned holds the token <html in some case.
C5_NormalizationNeverFails ==
    (Generated /\ ~IsNone(last.answer))
        => /\ last.status = 200
           /\ Contains(Lower(Val(last.body).html), HtmlToken)


\* ---------------------------------------------------------------- the pure functions

\* the server at rest, while a pure function is applied
ServerIdle ==
    /\ OLLAMA_API_KEY = <<"k">>
    /\ bundles = EmptyTree
    /\ task = [t \in Tasks |-> IdleTask]
    /\ last = NoRequest
    /\ persisted = [b \in BundleIds |-> None]

\* a call of the function fn with the arguments args, before it is evaluated
Call(fn, args) == [fn |-> fn, stage |-> "call", args |-> args, result |-> <<>>]

\* the call c returned result
Return(c, result) == [c EXCEPT !.stage = "return", !.result = result]

Returned(fn) == pure.fn = fn /\ pure.stage = "return"

\* the texts of at most n characters of the alphabet
TextsUpTo(alphabet, n) == UNION {[1..k -> alphabet] : k \in 0..n}

\* the concatenations of at most n of the parts
RECURSIVE Concats(_, _)
Concats(parts, n) ==
    IF n = 0 THEN {<<>>}
    ELSE LET shorter == Concats(parts, n - 1)
         IN  shorter \cup {s \o p : s \in shorter, p \in parts}

\* str.upper() on one character
UpperChar(c) == IF c \in Lowers THEN UpperSeq[CHOOSE i \in 1..26 : LowerSeq[i] = c] ELSE c

Upper(s) == [i \in 1..Len(s) |-> UpperChar(s[i])]

AliasKeys == {MODEL_ALIASES[i][1] : i \in 1..Len(MODEL_ALIASES)}

\* ---- resolve_model

\* the most parts a model identifier is made of
MaxIdParts == 2

\* what model identifiers are made of: the aliases as written and in upper case,
\* an alias cut short, and filling
IdParts ==
    AliasKeys \cup {Upper(a) : a \in AliasKeys}
        \cup {<<"g", "p", "t", "-", "o", "s", "s">>, <<"m", "y", "-">>, <<" ">>}

ModelIds == {None} \cup {Some(id) : id \in Concats(IdParts, MaxIdParts) \cup PresetNames}

InitResolve == ServerIdle /\ pure \in {Call("resolve_model", [name |-> id]) : id \in ModelIds}

ResolveModel ==
    /\ pure.fn = "resolve_model"
    /\ pure.stage = "call"
    /\ pure' = Return(pure, resolve_model(pure.args.name))
    /\ UNCHANGED serverVars

SpecResolve == InitResolve /\ [][ResolveModel]_vars

\* the places in the alias table of the aliases the identifier contains, case
\* and surrounding whitespace aside
AliasesIn(name) ==
    LET n == Lower(Strip(IF IsNone(name) THEN <<>> ELSE Val(name)))
    IN  {i \in 1..Len(MODEL_ALIASES) : Contains(n, MODEL_ALIASES[i][1])}

\* C7: an identifier that contains a known alias, in any case, resolves to the
\* canonical name of the first alias in declaration order that it contains; so
\* one that contains exactly one alias resolves as that alias itself does.
C7_FirstAliasWins ==
    (Returned("resolve_model") /\ AliasesIn(pure.args.name) # {}) =>
        LET found == AliasesIn(pure.args.name)
            first == CHOOSE i \in found : \A j \in found : i <= j
        IN  /\ pure.result = MODEL_ALIASES[first][2]
            /\ found = {first} => pure.result = resolve_model(Some(MODEL_ALIASES[first][1]))

\* an identifier with two aliases, the later one in the table written first
C7_Witness ==
    /\ Returned("resolve_model")
    /\ AliasesIn(pure.args.name) = {2, 5}
    /\ StartsWith(Lower(Val(pure.args.name)), MODEL_ALIASES[5][1])
    /\ pure.result = M_QWEN3_CODER

\* ---- choose_tokens_and_temp

\* how far around each threshold the requested lengths reach
MaxDelta == 1

\* the thresholds of the clamp: 300, and every preset's ideal_max and cap
Thresholds ==
    {300} \cup {MODEL_PRESETS[i].ideal_max : i \in 1..Len(MODEL_PRESETS)}
          \cup {MODEL_PRESETS[i].cap : i \in 1..Len(MODEL_PRESETS)}

\* the requested lengths: none, around zero, around every threshold, and large
RequestedLengths ==
    {None} \cup {Some(v) : v \in (0 - MaxDelta - 1)..(MaxDelta + 1)}
           \cup {Some(e + d) : e \in Thresholds, d \in (0 - MaxDelta)..MaxDelta}
           \cup {Some(100000)}

\* one identifier for every preset, one unknown, and none
TokenModels == {None, Some(<<"x">>)} \cup {Some(a) : a \in AliasKeys}

InitTokens ==
    /\ ServerIdle
    /\ pure \in {Call("choose_tokens_and_temp", [model |-> m, requested_max |-> r, req_temp |-> x]) :
                    m \in TokenModels, r \in RequestedLengths, x \in {None, Some(70)}}

\* generate from choose_tokens_and_temp to the payload
ChooseTokens ==
    /\ pure.fn = "choose_tokens_and_temp"
    /\ pure.stage = "call"
    /\ LET picked == choose_tokens_and_temp(pure.args.model, pure.args.requested_max,
                                            pure.args.req_temp)
           req == [prompt |-> <<"p">>, model |-> pure.args.model,
                   max_tokens |-> pure.args.requested_max, temperature |-> pure.args.req_temp,
                   bundle_id |-> None, image_names |-> None]
       IN  pure' = Return(pure, [picked |-> picked, payload |-> Payload(req, picked, <<>>)])
    /\ UNCHANGED serverVars

SpecTokens == InitTokens /\ [][ChooseTokens]_vars

\* the entry of MODEL_PRESETS for a canonical name
PresetNamed(canon) ==
    MODEL_PRESETS[CHOOSE i \in 1..Len(MODEL_PRESETS) : MODEL_PRESETS[i].name = canon]

\* C6: for every model and every requested length, absent, zero and negative
\* ones too, the chosen length is at least 300 and at most the cap of the
\* resolved model's preset, it is the max_tokens of the payload, and it is the
\* preset's ideal_max when no length is requested.
C6_ChosenLengthClamped ==
    Returned("choose_tokens_and_temp") =>
        LET chosen == pure.result.picked.chosen_max
            canon == pure.result.picked.meta.model_canonical
        IN  /\ canon \in PresetNames
            /\ canon = resolve_model(pure.args.model)
            /\ 300 <= chosen
            /\ chosen <= PresetNamed(canon).cap
            /\ pure.result.payload.max_tokens = chosen
            /\ pure.result.picked.meta.chosen_max = chosen
            /\ IsNone(pure.args.requested_max) => chosen = PresetNamed(canon).ideal_max

\* a negative length requested of the preset with the smallest cap
C6_Witness ==
    /\ Returned("choose_tokens_and_temp")
    /\ pure.args.requested_max = Some(-1)
    /\ pure.result.picked.meta.model_canonical = M_GPT_OSS_20B
    /\ pure.result.payload.max_tokens = 300

\* ---- safe_name

\* the longest uploaded filename
MaxNameLen == 3

\* the characters of the uploaded filenames: kept ones, separators, a space and
\* a tab, and one that is dropped
NameAlphabet == {"a", "B", "7", ".", "_", "-", "/", "\\", " ", "\t", "$"}

UploadedNames == {None} \cup {Some(n) : n \in TextsUpTo(NameAlphabet, MaxNameLen)}

InitName == ServerIdle /\ pure \in {Call("safe_name", [filename |-> f]) : f \in UploadedNames}

\* upload, the name it stores a file under
StoreName ==
    /\ pure.fn = "safe_name"
    /\ pure.stage = "call"
    /\ \E hex \in HexDraws : pure' = Return(pure, StoredName(pure.args.filename, hex))
    /\ UNCHANGED serverVars

SpecName == InitName /\ [][StoreName]_vars

\* C8: the name /upload stores a file under is not empty, holds only letters,
\* digits, dot, underscore and hyphen, so no path separator, and does not start
\* with a dot: as a path under the assets directory it is one segment, a direct
\* child.
C8_StoredNameSafe ==
    Returned("safe_name") =>
        /\ pure.result # <<>>
        /\ \A i \in 1..Len(pure.result) : pure.result[i] \in SafeChars
        /\ \A i \in 1..Len(pure.result) : pure.result[i] \notin {"/", "\\"}
        /\ pure.result[1] # "."
        /\ PathParts(pure.result, <<>>) = <<pure.result>>
        /\ pure.result # DotDot

\* the filename ../a, stored as a
C8_Witness ==
    /\ Returned("safe_name")
    /\ pure.args.filename = Some(<<".", "/", "a">>)
    /\ pure.result = <<"a">>

\* ---- fix_img_paths_relative and absolutize_for_preview

\* the most parts a document is made of
MaxHtmlParts == 5

\* what the documents are made of: delimiters, the asset name, the assets/
\* prefix and filling
HtmlParts == {<<"\"">>, <<"(">>, <<")">>, NameA, AssetsPrefix, <<"x">>}

Documents == Concats(HtmlParts, MaxHtmlParts)

\* the asset names: a plain name, and one with a directory before it
RewriteNames == {NameA, <<"d", "/">> \o NameA}

InitRewrite ==
    /\ ServerIdle
    /\ pure \in {Call("rewrite", [html |-> h, name |-> n, bundle_id |-> B1]) :
                    h \in Documents, n \in RewriteNames}

\* generate, its two rewrites, and the storage rewrite applied once more to
\* either form
Rewrite ==
    /\ pure.fn = "rewrite"
    /\ pure.stage = "call"
    /\ LET names == <<pure.args.name>>
           html_saved == fix_img_paths_relative(pure.args.html, names)
           html_preview == absolutize_for_preview(html_saved, pure.args.bundle_id)
       IN  pure' = Return(pure, [html |-> html_saved,
                                 html_preview |-> html_preview,
                                 html_again |-> fix_img_paths_relative(html_saved, names),
                                 preview_again |-> fix_img_paths_relative(html_preview, names)])
    /\ UNCHANGED serverVars

SpecRewrite == InitRewrite /\ [][Rewrite]_vars

\* the places of a text where a bare reference to base starts: a delimiter, base,
\* a delimiter
BareReferences(text, base) == {i \in 1..Len(text) : RelativeMatchAt(text, base, i)}

\* C10: the preview form of the storage form of a document has every bare quoted
\* or parenthesized reference to the name turned into /bundles/<id>/assets/<name>,
\* so none is left bare, and the storage rewrite applied again to the storage
\* form or to the preview form changes nothing.
C10_RoundTripAndNoDoublePrefix ==
    Returned("rewrite") =>
        LET base == LastSegment(pure.args.name)
            every == InsertAfter(pure.args.html, 1, BareReferences(pure.args.html, base),
                                 AssetsPrefix)
        IN  /\ pure.result.html_preview = absolutize_for_preview(every, pure.args.bundle_id)
            /\ BareReferences(pure.result.html_preview, base) = {}
            /\ pure.result.html_again = pure.result.html
            /\ pure.result.preview_again = pure.result.html_preview

\* ---------------------------------------------------------------- the bundle on disk

\* C9: the index.html of a bundle, if there is one, is the html field of the
\* latest /generate on the bundle that succeeded, and when a /generate succeeds
\* with a preview form that differs from the storage form, index.html is not the
\* preview form.
C9_IndexIsLatestStorageForm ==
    /\ \A b \in BundleIds :
          ~IsNone(IndexOf(bundles, b)) => IndexOf(bundles, b) = persisted[b]
    /\ (Generated /\ last.status = 200) =>
          LET body == Val(last.body)
              index == IndexOf(bundles, body.bundle_id)
          IN  /\ index = Some(body.html)
              /\ body.html_preview # body.html => index # Some(body.html_preview)

\* ---- the content normaliser

\* the most parts a raw text is made of
MaxTextParts == 4

\* the raw texts are made of a fence, a language tag, a page, a line break and
\* plain text
InitNormalize ==
    LET TextParts == {Fence, <<"h", "t", "m", "l">>, <<"<", "h", "t", "m", "l", ">">>, <<"\n">>,
                      <<"n", "o">>}
    IN  /\ ServerIdle
        /\ pure \in {Call("normalize", [content |-> x]) : x \in Concats(TextParts, MaxTextParts)}

\* generate from strip_fences to the fallback, on a raw text and then on its own
\* result
Normalize ==
    /\ pure.fn = "normalize"
    /\ pure.stage = "call"
    /\ LET once == NormalizeContent(pure.args.content)
       IN  pure' = Return(pure, [once |-> once, twice |-> NormalizeContent(once)])
    /\ UNCHANGED serverVars

SpecNormalize == InitNormalize /\ [][Normalize]_vars

\* C11: the content normaliser is idempotent: normalising a normalised text
\* gives the same text, normalize(normalize(x)) = normalize(x) for every raw
\* text x.
C11_NormalizeIdempotent == Returned("normalize") => pure.result.twice = pure.result.once

\* ---------------------------------------------------------------- packaging

\* the requests of SpecPaths: a bundle identifier that is a name, and one that is
\* a path into the first bundle
PathReqs ==
    [prompt : {<<"p">>}, model : {None}, max_tokens : {None}, temperature : {None},
     bundle_id : {Some(b) : b \in SuppliedIds}, image_names : {None}]

\* the uploads of SpecPaths: one file, named as an asset, as the page of a bundle
\* or as the assets directory
PathUploads ==
    {<<[filename |-> Some(n), bytes |-> b]>> : n \in {NameA, IndexName, AssetsDirName},
                                                b \in UploadBytes}

NextPaths ==
    \/ GenerateSteps({"t1"}, PathReqs, {200}, <<Some(Completion(JStr(PageWithA)))>>)
    \/ \E files \in PathUploads, bid \in SuppliedIds :
          \E hexes \in [1..Len(files) -> HexDraws] : Upload(files, Some(bid), bid, hexes)
    \/ \E bundle_id \in RoutedIds : DownloadBundle(bundle_id)

InitPaths == Init /\ OLLAMA_API_KEY # <<>>

SpecPaths == InitPaths /\ [][NextPaths]_vars

Downloaded == last.op = "download"

\* C12: GET /bundle/{id}.zip fails with 404 exactly when the bundle directory
\* does not exist; otherwise the archive holds exactly the regular files under
\* the bundle directory, with their contents: index.html if a /generate has
\* written one, assets/<name> for each stored asset, and nothing else.
C12_ArchiveIsBundle ==
    Downloaded =>
        LET index == IndexOf(bundles, last.req.bundle_id)
            assets == AssetsOf(bundles, last.req.bundle_id)
        IN  /\ last.status \in {200, 404}
            /\ last.status = 404 <=> ~BundleExists(bundles, last.req.bundle_id)
            /\ last.status = 200 =>
                  LET entries == Val(last.body).entries
                      arcnames == {e[1] : e \in entries}
                  IN  /\ arcnames = {AssetsPrefix \o n : n \in DOMAIN assets}
                                       \cup (IF IsNone(index) THEN {} ELSE {IndexName})
                      /\ Cardinality(entries) = Cardinality(arcnames)
                      /\ \A e \in entries :
                            e[2] = IF e[1] = IndexName THEN Val(index)
                                   ELSE assets[SubSeq(e[1], Len(AssetsPrefix) + 1, Len(e[1]))]
                      /\ ~IsNone(persisted[last.req.bundle_id]) => IndexName \in arcnames

\* ---------------------------------------------------------------- bundle identifiers and asset names

\* a name no asset has
NameZ == <<"z">>

\* the requests of SpecBundle: the bundle_id absent, empty and given; the
\* image_names absent, empty, and lists of a stored name, a missing one and ..
BundleReqs ==
    [prompt : {<<"p">>}, model : {None}, max_tokens : {None}, temperature : {None},
     bundle_id : {None, Some(<<>>), Some(B1)},
     image_names : {None, Some(<<>>), Some(<<NameA>>), Some(<<NameZ, NameA>>), Some(<<DotDot>>)}]

InitBundle == Init /\ OLLAMA_API_KEY # <<>>

NextBundle ==
    \/ GenerateSteps({"t1"}, BundleReqs, {200}, <<Some(Completion(JStr(PageWithA)))>>)
    \/ UploadSteps({None, Some(<<>>), Some(B1)})

SpecBundle == InitBundle /\ [][NextBundle]_vars

Uploaded == last.op = "upload"

\* the step ends in the response of a /generate or an /upload that ran ensure_bundle,
\* or starts the upstream call of a /generate, which follows ensure_bundle
Ensured ==
    \/ last'.op = "upload"
    \/ last'.op = "generate" /\ last'.status # 400
    \/ \E t \in Tasks : task[t].pc = "idle" /\ task'[t].pc = "post"

\* C13: a /generate or /upload that supplies a bundle identifier answers with
\* that identifier, a minted identifier being answered only when none was
\* supplied; and a step that ensures a bundle leaves the index.html and every
\* asset the bundles already have as they are, but for what that request itself
\* stores.
C13_SuppliedIdReused ==
    [][/\ (last'.op \in {"generate", "upload"} /\ last'.status = 200) =>
            /\ ~IsNone(last'.req.bundle_id) =>
                  Val(last'.body).bundle_id = Val(last'.req.bundle_id)
            /\ Val(last'.body).bundle_id \in MintedIds => IsNone(last'.req.bundle_id)
       /\ Ensured =>
            \A b \in BundleIds : BundleExists(bundles, b) =>
                /\ BundleExists(bundles', b)
                /\ \A n \in DOMAIN AssetsOf(bundles, b) :
                      /\ n \in DOMAIN AssetsOf(bundles', b)
                      /\ \/ AssetsOf(bundles', b)[n] = AssetsOf(bundles, b)[n]
                         \/ /\ last'.op = "upload"
                            /\ b = Val(last'.body).bundle_id
                            /\ \E i \in 1..Len(Val(last'.body).assets) :
                                  Val(last'.body).assets[i] = n
                /\ \/ IndexOf(bundles', b) = IndexOf(bundles, b)
                   \/ /\ last'.op = "generate"
                      /\ last'.status = 200
                      /\ b = Val(last'.body).bundle_id]_vars

\* the step is the one in which task t collects its asset names and starts the
\* upstream call
Collects(t) == task[t].pc = "idle" /\ task'[t].pc = "post"

\* the step is the one in which task t answers its /generate with 200
Answers(t) == task[t].pc = "post" /\ last'.op = "generate" /\ last'.t = t /\ last'.status = 200

\* C14: the asset names of a /generate, in the prompt, in the path rewriting and
\* in the assets field of the response, are the given names that are files in
\* the assets directory of the bundle when a list is given, an empty list too,
\* and all the files there, in order, when none is given; each name is the name
\* of a regular file in that directory.
C14_AssetNamesAreFiles ==
    [][\A t \in Tasks :
          /\ Collects(t) =>
                LET req == task'[t].req
                    names == task'[t].names
                    files == DOMAIN AssetsOf(bundles', task'[t].bid)
                IN  /\ \A i \in 1..Len(names) : names[i] \in files
                    /\ IsNone(req.image_names) => names = Sorted(files)
                    /\ ~IsNone(req.image_names) =>
                          names = SelectSeq(Val(req.image_names), LAMBDA n : n \in files)
                    /\ task'[t].payload.user.images = names
          /\ Answers(t) =>
                /\ Val(last'.body).assets = task[t].names
                /\ \A i \in 1..Len(task[t].names) :
                      BareReferences(Val(last'.body).html, LastSegment(task[t].names[i])) = {}]_vars

\* ---------------------------------------------------------------- concurrent requests

\* the step is the one in which task t answers its /generate with 200, right
\* after the other task answered its own with 200, on the same bundle: both
\* were waiting for the upstream at the same time
Race(t) ==
    /\ Answers(t)
    /\ last.op = "generate"
    /\ last.status = 200
    /\ last.t # t
    /\ Val(last.body).bundle_id = task[t].bid

SpecClientFair ==
    /\ SpecClient
    /\ \A t \in {"t1"} :
          WF_vars(\/ \E status \in ClientStatuses, k \in 1..Len(ClientBodies) :
                        PostStatus(t, status, ClientBodies[k])
                  \/ PostRequestError(t))

\* the outcomes that let call_provider try again
Retried == retriable \cup {RequestError}

\* C16: whatever the upstream outcomes, call_provider makes at most two calls,
\* the second only after a first that ended in a retriable status or a transport
\* failure; it ends, and it ends either returning the parsed body of a response
\* below 400 or raising: never without a result.
C16_CallProviderEnds ==
    /\ [](\A t \in Tasks : task[t].pc = "post" =>
            /\ task[t].calls \in 1..Attempts
            /\ Len(task[t].outcomes) = task[t].calls - 1
            /\ \A i \in 1..Len(task[t].outcomes) : task[t].outcomes[i] \in Retried)
    /\ []((Generated /\ last.calls > 0) =>
            /\ last.calls \in 1..Attempts
            /\ Len(last.outcomes) = last.calls
            /\ last.calls = 2 => last.outcomes[1] \in Retried
            /\ \/ /\ ~IsNone(last.answer)
                  /\ FinalOutcome # RequestError
                  /\ FinalOutcome < 400
               \/ /\ IsNone(last.answer)
                  /\ last.status \in {500, 502}
                  /\ last.detail \in {Detail("Provider", FinalOutcome),
                                      Detail("Netzwerkfehler", 0),
                                      Detail("JSONDecodeError", 0)})
    /\ \A t \in Tasks : (task[t].pc = "post") ~> (task[t].pc = "idle")

\* a transport failure, then a retriable status on the last attempt: raised
C16_Witness ==
    /\ Generated
    /\ last.outcomes = <<RequestError, 503>>
    /\ last.calls = Attempts
    /\ IsNone(last.answer)
    /\ last.status = 502

\* ---------------------------------------------------------------- what changes a bundle

\* the index.html of a bundle, None when there is none or no bundle
IndexNow(dirs, b) == IF BundleExists(dirs, b) THEN IndexOf(dirs, b) ELSE None

\* C17: a step that ends a /generate in a failure leaves the index.html and the
\* asset files of every existing bundle as they are; and no step changes the
\* index.html of a bundle but the success of a /generate on that bundle: no
\* /upload does, and no download.
C17_FailedGenerateChangesNothing ==
    [][\A b \in BundleIds :
          /\ (last'.op = "generate" /\ last'.status # 200 /\ BundleExists(bundles, b)) =>
                /\ BundleExists(bundles', b)
                /\ AssetsOf(bundles', b) = AssetsOf(bundles, b)
                /\ IndexOf(bundles', b) = IndexOf(bundles, b)
          /\ IndexNow(bundles', b) # IndexNow(bundles, b) =>
                /\ last'.op = "generate"
                /\ last'.status = 200
                /\ Val(last'.body).bundle_id = b]_vars

\* ---------------------------------------------------------------- the asset snapshot

\* the page the upstream answered with, normalised, before any rewriting
AnsweredPage(answer) == NormalizeContent(ExtractContent(answer).v.v)

\* C18: the asset names of a /generate that gives no list are the files of the
\* bundle when it starts its upstream call, and they stay so while it waits: an
\* asset uploaded meanwhile is in the bundle, is not in the assets the request
\* returns, its references are left bare in the html, and a later download
\* holds it.
C18_AssetSnapshot ==
    [][/\ \A t \in Tasks :
             /\ (Collects(t) /\ IsNone(task'[t].req.image_names)) =>
                   task'[t].names = Sorted(DOMAIN AssetsOf(bundles', task'[t].bid))
             /\ (task[t].pc = "post" /\ task'[t].pc = "post") => task'[t].names = task[t].names
             /\ Answers(t) =>
                   /\ Val(last'.body).assets = task[t].names
                   /\ \A n \in DOMAIN AssetsOf(bundles', task[t].bid) :
                         (\A i \in 1..Len(task[t].names) : task[t].names[i] # n) =>
                            BareReferences(Val(last'.body).html, n) =
                               BareReferences(AnsweredPage(Val(last'.answer)), n)
       /\ (last'.op = "download" /\ last'.status = 200) =>
             \A n \in DOMAIN AssetsOf(bundles', last'.req.bundle_id) :
                \E e \in Val(last'.body).entries : e[1] = AssetsPrefix \o n]_vars

\* a /generate answers without the asset a, which was uploaded while it waited:
\* a is in the bundle, and the page still refers to it by its bare name
C18_Witness ==
    /\ Generated
    /\ last.status = 200
    /\ IsNone(last.req.image_names)
    /\ Val(last.body).assets = <<>>
    /\ NameA \in DOMAIN AssetsOf(bundles, Val(last.body).bundle_id)
    /\ BareReferences(Val(last.body).html, NameA) # {}
    /\ IndexOf(bundles, Val(last.body).bundle_id) = Some(Val(last.body).html)

====
